---- MODULE Spec2Model ----
(***************************************************************************)
(* Model of the Bluetooth proximity lock: the multi-device controller of   *)
(* main_module.py (ProximityLockController), the scanner's get_rssi, and   *)
(* the actuator WindowsSystemController of system_control_module.py.       *)
(*                                                                         *)
(* One cycle of monitor_loop is                                            *)
(*   BeginCycle      scan_count += 1, one _scan_device task per device     *)
(*   ScanDevice(i)   device i's task runs get_rssi and completes           *)
(*   Gather          asyncio.gather returns, _scan_all builds rssi_map     *)
(*   EvaluateAndAct  the synchronous rest of the body: evaluate, actuate   *)
(* and the loop is then suspended in asyncio.sleep until BeginCycle.       *)
(* The loop ends by                                                        *)
(*   RaiseInBody     an exception raised in the body of a cycle            *)
(*   Cancel          CancelledError at the scan join or at the sleep       *)
(*   Interrupt       KeyboardInterrupt while the loop is suspended         *)
(* and RunFinish is what run() does after loop.run_until_complete.         *)
(* SpecPair runs the single-device controller of main_controller.py beside *)
(* the phone-only multi-device one; SpecScanErrors is the loop with the    *)
(* history of the scans that raised BleakError. SpecScanOrder records the  *)
(* completion order of the scans, SpecPairLog the readings of the run,     *)
(* SpecTally the calls and cycles counted as they happen; SpecAlternate is *)
(* the loop under opposed votes and SpecLive the loop running for ever.    *)
(***************************************************************************)
EXTENDS Integers, Sequences, FiniteSets, TLC

\* ------------------------------------------------------------------ bounds
\* Cycles of the monitor loop that are explored (scan_count is unbounded).
MaxCycles == 3
\* Largest CONSECUTIVE_FAIL_THRESHOLD that is explored (config value, >= 1).
MaxFailThreshold == 2

\* --------------------------------------------------------- configuration
\* (LOCK_THRESHOLD, UNLOCK_THRESHOLD) pairs that pass validate_config; the
\* first is the value of config_module.py.
ThresholdPairs == { <<-80, -70>>, <<-75, -70>> }

\* Pairs validate_config rejects (LOCK_THRESHOLD >= UNLOCK_THRESHOLD).
InvalidPairs == { <<-70, -80>>, <<-80, -80>> }
ConfigPairs == ThresholdPairs \cup InvalidPairs

\* Signal strengths a discovery can report for the target.
RssiValues == { -85, -80, -75, -70, -65 }

\* Optional[int] and the results asyncio.gather can hand back.
None == [kind |-> "None"]
Some(r) == [kind |-> "int", val |-> r]
Raised(e) == [kind |-> "exc", err |-> e]
IsNone(x) == x.kind = "None"
IsException(x) == x.kind = "exc"

\* A scan task before it is created, and while it runs.
Idle == [kind |-> "idle"]
Running == [kind |-> "running"]

\* What BleakScanner.discover does in one scan of one target.
Found(r) == [what |-> "found", rssi |-> r]
NotFound == [what |-> "notfound", rssi |-> 0]
AdapterError == [what |-> "BleakError", rssi |-> 0]
OtherError == [what |-> "Exception", rssi |-> 0]
DiscoverOutcomes == { Found(r) : r \in RssiValues } \cup { NotFound, AdapterError, OtherError }

\* What the operating system does with a lock or wake request.
LockOsOutcomes == { "zero", "nonzero", "raise" }
WakeOsOutcomes == { "done", "raise" }

\* The device lists _load_devices_from_config can build: the phone, and the
\* headphones when HEADPHONE_MAC is set.
DeviceNames == << "phone", "headphones" >>

VARIABLES
    devices,        \* List[TargetDevice]: name, thresholds, scanner, consecutive_failures
    fail_threshold, \* config.CONSECUTIVE_FAIL_THRESHOLD
    is_locked,      \* controller.is_locked
    scan_count,     \* controller.scan_count
    controller,     \* WindowsSystemController: current_state, lock_count, unlock_count
    pc,             \* where the program is: "config_error" (no controller built),
                    \* in monitor_loop "start", "scanning", "evaluate", "sleeping";
                    \* monitor_loop over: "returned", "raised" (an Exception leaves
                    \* it), "interrupted" (KeyboardInterrupt leaves the event
                    \* loop); "exited" (run is over)
    tasks,          \* per device: Idle, Running or the task's result
    rssi_map,       \* the rssi_map of the current cycle (by device name)
    probe,          \* per device: what discovery did in this cycle's scan
    began_locked,   \* is_locked when the current cycle began
    calls,          \* actuator calls of the last evaluated cycle: <<[op, ok]>>
    prev_calls,     \* actuator calls of the cycle before that one
    evaluated,      \* which evaluator ran in that cycle, and what it returned
    abs_votes,      \* devices whose absence gave a lock vote in that cycle
    events,         \* the transition events that cycle sent to the logger
    absent_run,     \* per device: consecutive cycles, up to now, with an absent reading
    thresholds,     \* config: << LOCK_THRESHOLD, UNLOCK_THRESHOLD >>
    task_cycle,     \* per device: the cycle its scan task in flight was created in (0: none)
    map_cycle,      \* the cycle whose scans rssi_map was built from
    ended_by,       \* what ended monitor_loop: [exc, at]
    error_log,      \* the log_error entries written, in order
    shutdown_called, \* whether run() has called controller.shutdown()
    err_run,        \* history: per device, the consecutive Unlocked cycles up to
                    \* now whose scan raised BleakError
    single,         \* the single-device controller of main_controller.py run
                    \* side by side: is_locked, consecutive_failures, actuator, calls
    done_order,     \* history: the devices in the order their scans of the
                    \* current cycle completed
    cycle_log,      \* history: per evaluated cycle, the phone's reading, whether
                    \* every actuator call of the cycle succeeded, and the
                    \* single-device controller's is_locked after it
    tally           \* history: lock_system calls that returned true, wake_system
                    \* calls that returned true, cycles started

cfgVars == << fail_threshold, thresholds >>
cycleVars == << began_locked, calls, prev_calls, evaluated, abs_votes, events >>
runVars == << ended_by, error_log, shutdown_called >>

vars == << devices, is_locked, scan_count, controller, pc, tasks, rssi_map, probe,
           absent_run, task_cycle, map_cycle, cfgVars, cycleVars, runVars,
           err_run, single, done_order, cycle_log, tally >>

\* The variables only the specifications that observe them let change.
histVars == << err_run, single, done_order, cycle_log, tally >>

Idx == DOMAIN devices
NameSet == { devices[i].name : i \in Idx }
NoProbe == [what |-> "none", rssi |-> 0]

\* ------------------------------------------------------------- the scanner
\* BluetoothScanner.get_rssi: the reading when the target is among the
\* discovered devices, None when it is not or when an unexpected error is
\* caught; a BleakError is re-raised.
get_rssi(outcome) ==
    CASE outcome.what = "found" -> Some(outcome.rssi)
      [] outcome.what = "notfound" -> None
      [] outcome.what = "BleakError" -> Raised("BleakError")
      [] OTHER -> None

\* Mutant of _scan_device: a scan that raised is reported as the reading 0.
_scan_device_ErrorAsZero(device, outcome) ==
    IF device.scanner = "None" THEN None
    ELSE LET r == get_rssi(outcome) IN
         IF IsException(r) THEN Some(0) ELSE r

\* ProximityLockController._scan_device: None without a scanner, otherwise
\* get_rssi's result; every Exception is caught and becomes None.
_scan_device(device, outcome) ==
    IF device.scanner = "None" THEN None
    ELSE LET r == get_rssi(outcome) IN
         IF IsException(r) THEN None ELSE r

\* Mutant of _scan_all: the results are paired with the devices in the order
\* in which the scans completed.
_scan_all_AsCompleted(devs, results) ==
    [ n \in { devs[i].name : i \in DOMAIN devs } |->
        LET i == CHOOSE j \in DOMAIN devs : devs[j].name = n
            r == IF i \in DOMAIN done_order THEN results[done_order[i]] ELSE results[i]
        IN  IF IsException(r) THEN None ELSE r ]

\* Mutant of _scan_all: the results are paired with the devices in the
\* opposite order.
_scan_all_Misaligned(devs, results) ==
    [ n \in { devs[i].name : i \in DOMAIN devs } |->
        LET i == CHOOSE j \in DOMAIN devs : devs[j].name = n
            r == results[Len(devs) + 1 - i]
        IN  IF IsException(r) THEN None ELSE r ]

\* ProximityLockController._scan_all after gather: zip(devices, results),
\* an exception object is replaced by None.
_scan_all(devs, results) ==
    [ n \in { devs[i].name : i \in DOMAIN devs } |->
        LET i == CHOOSE j \in DOMAIN devs : devs[j].name = n IN
        IF IsException(results[i]) THEN None ELSE results[i] ]

\* Mutant of UpdateFailures: an absent reading is not counted.
UpdateFailures_NoCount(device, rssi) ==
    IF IsNone(rssi)
    THEN device
    ELSE [device EXCEPT !.consecutive_failures = 0]

\* ----------------------------------------------------------- the evaluator
\* _evaluate_lock, lines 166-175: what one device's reading does to its
\* consecutive_failures.
UpdateFailures(device, rssi) ==
    IF IsNone(rssi)
    THEN [device EXCEPT !.consecutive_failures = @ + 1]
    ELSE [device EXCEPT !.consecutive_failures = 0]

\* _evaluate_lock, lines 166-172: an absent reading votes lock once the
\* incremented counter has reached the failure threshold.
AbsenceVote(device, rssi, F) ==
    IsNone(rssi) /\ device.consecutive_failures + 1 >= F

\* Mutant of FarVote: a far reading votes lock only after an absence has
\* been counted.
FarVote_AfterAbsence(device, rssi) ==
    ~IsNone(rssi) /\ rssi.val < device.lock_threshold /\ device.consecutive_failures > 0

\* Mutant of FarVote: the comparison with lock_threshold is not strict.
FarVote_Inclusive(device, rssi) ==
    ~IsNone(rssi) /\ rssi.val <= device.lock_threshold

\* _evaluate_lock, lines 175-178: a present reading votes lock when it is
\* below the device's lock_threshold.
FarVote(device, rssi) ==
    ~IsNone(rssi) /\ rssi.val < device.lock_threshold

\* Mutant of _evaluate_lock: the loop returns at the first device that votes,
\* so the devices after it are not visited.
_evaluate_lock_EarlyReturn(devs, rmap, F) ==
    LET votes(i) == \/ AbsenceVote(devs[i], rmap[devs[i].name], F)
                    \/ FarVote(devs[i], rmap[devs[i].name])
        visited == { i \in DOMAIN devs : \A j \in 1..(i - 1) : ~votes(j) }
    IN  [ devices |-> [ i \in DOMAIN devs |->
                          IF i \in visited
                          THEN UpdateFailures(devs[i], rmap[devs[i].name])
                          ELSE devs[i] ],
          should_lock |-> \E i \in DOMAIN devs : votes(i),
          absent |-> { i \in visited : AbsenceVote(devs[i], rmap[devs[i].name], F) } ]

\* ProximityLockController._evaluate_lock: every device is visited, its
\* counter updated, and should_lock is the OR of the devices' votes.
_evaluate_lock(devs, rmap, F) ==
    [ devices |-> [ i \in DOMAIN devs |-> UpdateFailures(devs[i], rmap[devs[i].name]) ],
      should_lock |-> \E i \in DOMAIN devs :
                         \/ AbsenceVote(devs[i], rmap[devs[i].name], F)
                         \/ FarVote(devs[i], rmap[devs[i].name]),
      absent |-> { i \in DOMAIN devs : AbsenceVote(devs[i], rmap[devs[i].name], F) } ]

\* _evaluate_unlock, lines 186-191: a present reading above the device's
\* unlock_threshold votes unlock.
NearVote(device, rssi) ==
    ~IsNone(rssi) /\ rssi.val > device.unlock_threshold

\* Mutant of _evaluate_unlock: only the first device (the phone) is asked.
_evaluate_unlock_PhoneOnly(devs, rmap) ==
    NearVote(devs[1], rmap[devs[1].name])

\* Mutant of _evaluate_unlock: every device must be in range.
_evaluate_unlock_AllNear(devs, rmap) ==
    \A i \in DOMAIN devs : NearVote(devs[i], rmap[devs[i].name])

\* ProximityLockController._evaluate_unlock: True at the first device that
\* votes unlock, False when none does; no counter is touched.
_evaluate_unlock(devs, rmap) ==
    \E i \in DOMAIN devs : NearVote(devs[i], rmap[devs[i].name])

\* ------------------------------------------------------------ the actuator
\* Mutant of lock_system: current_state is not written.
lock_system_NoState(ctl, os) ==
    IF os = "zero"
    THEN [ ok |-> TRUE, raised |-> FALSE,
           ctl |-> [ctl EXCEPT !.lock_count = @ + 1] ]
    ELSE [ ok |-> FALSE, raised |-> FALSE, ctl |-> ctl ]

\* Mutant of lock_system: the lock is counted before the status is looked at.
lock_system_CountFirst(ctl, os) ==
    IF os = "zero"
    THEN [ ok |-> TRUE, raised |-> FALSE,
           ctl |-> [ctl EXCEPT !.current_state = "LOCKED", !.lock_count = @ + 1] ]
    ELSE [ ok |-> FALSE, raised |-> FALSE,
           ctl |-> [ctl EXCEPT !.lock_count = @ + 1] ]

\* WindowsSystemController.lock_system: status 0 commits LOCKED and counts
\* the lock; a non-zero status or an exception returns False (raised: whether
\* an exception leaves the method; the except clause lets none out).
lock_system(ctl, os) ==
    IF os = "zero"
    THEN [ ok |-> TRUE, raised |-> FALSE,
           ctl |-> [ctl EXCEPT !.current_state = "LOCKED", !.lock_count = @ + 1] ]
    ELSE [ ok |-> FALSE, raised |-> FALSE, ctl |-> ctl ]

\* Mutant of wake_system: the unlock is not counted.
wake_system_NoCount(ctl, os) ==
    IF os = "done"
    THEN [ ok |-> TRUE, raised |-> FALSE,
           ctl |-> [ctl EXCEPT !.current_state = "UNLOCKED"] ]
    ELSE [ ok |-> FALSE, raised |-> FALSE, ctl |-> ctl ]

\* Mutant of wake_system: no try/except around the call, an exception of
\* the operating system call leaves the method.
wake_system_NoCatch(ctl, os) ==
    CASE os = "done" ->
           [ ok |-> TRUE, raised |-> FALSE,
             ctl |-> [ctl EXCEPT !.current_state = "UNLOCKED", !.unlock_count = @ + 1] ]
      [] os = "raise" -> [ ok |-> FALSE, raised |-> TRUE, ctl |-> ctl ]
      [] OTHER -> [ ok |-> FALSE, raised |-> FALSE, ctl |-> ctl ]

\* WindowsSystemController.wake_system: the mouse event commits UNLOCKED and
\* counts the unlock; an exception returns False.
wake_system(ctl, os) ==
    IF os = "done"
    THEN [ ok |-> TRUE, raised |-> FALSE,
           ctl |-> [ctl EXCEPT !.current_state = "UNLOCKED", !.unlock_count = @ + 1] ]
    ELSE [ ok |-> FALSE, raised |-> FALSE, ctl |-> ctl ]

\* ---------------------------------------------------------- the loop body
\* Mutant of Commit: the assignment of is_locked is missing.
Commit_Never(locked, ok, target) ==
    locked

\* Mutant of Commit: the actuator's return value is ignored.
Commit_IgnoreResult(locked, ok, target) ==
    target

\* monitor_loop, lines 215-216 and 223-224: "if ok: self.is_locked = ..." --
\* the new state is committed only when the actuator call returned True.
Commit(locked, ok, target) ==
    IF ok THEN target ELSE locked

\* Mutant of LogTransition: the event is logged whatever the call returned.
LogTransition_Always(ok, type, rmap) ==
    << [ type |-> type,
         rssi |-> IF "phone" \in DOMAIN rmap THEN rmap["phone"] ELSE None ] >>

\* monitor_loop, lines 215-219 and 223-226: inside "if ok", after the
\* assignment of is_locked, log_system_locked / log_system_unlocked is called
\* with rssi_map.get("phone").
LogTransition(ok, type, rmap) ==
    IF ok
    THEN << [ type |-> type,
              rssi |-> IF "phone" \in DOMAIN rmap THEN rmap["phone"] ELSE None ] >>
    ELSE << >>

\* Mutant of UnlockedBranch: a device in range vetoes the lock.
UnlockedBranch_NearVeto(locked, devs, rmap, F, ctl, lockOs) ==
    LET ev == _evaluate_lock(devs, rmap, F)
        act == lock_system(ctl, lockOs)
    IN  IF ev.should_lock /\ ~_evaluate_unlock(devs, rmap)
        THEN [ is_locked |-> Commit(locked, act.ok, TRUE),
               devices |-> ev.devices, controller |-> act.ctl,
               calls |-> << [op |-> "lock_system", ok |-> act.ok] >>,
               raised |-> act.raised,
               evaluated |-> [which |-> "lock", result |-> TRUE],
               abs_votes |-> ev.absent,
               events |-> LogTransition(act.ok, "SYSTEM_LOCKED", rmap) ]
        ELSE [ is_locked |-> locked,
               devices |-> ev.devices, controller |-> ctl,
               calls |-> << >>,
               raised |-> FALSE,
               evaluated |-> [which |-> "lock", result |-> ev.should_lock],
               abs_votes |-> ev.absent,
               events |-> << >> ]

\* monitor_loop, lines 212-219: the branch of a cycle that begins Unlocked.
UnlockedBranch(locked, devs, rmap, F, ctl, lockOs) ==
    LET ev == _evaluate_lock(devs, rmap, F)
        act == lock_system(ctl, lockOs)
    IN  IF ev.should_lock
        THEN [ is_locked |-> Commit(locked, act.ok, TRUE),
               devices |-> ev.devices, controller |-> act.ctl,
               calls |-> << [op |-> "lock_system", ok |-> act.ok] >>,
               raised |-> act.raised,
               evaluated |-> [which |-> "lock", result |-> TRUE],
               abs_votes |-> ev.absent,
               events |-> LogTransition(act.ok, "SYSTEM_LOCKED", rmap) ]
        ELSE [ is_locked |-> locked,
               devices |-> ev.devices, controller |-> ctl,
               calls |-> << >>,
               raised |-> FALSE,
               evaluated |-> [which |-> "lock", result |-> FALSE],
               abs_votes |-> ev.absent,
               events |-> << >> ]

\* Mutant of LockedBranch: the failure counters are kept up to date in
\* Locked cycles too.
LockedBranch_UpdatesCounters(locked, devs, rmap, ctl, wakeOs) ==
    LET act == wake_system(ctl, wakeOs)
        upd == [ i \in DOMAIN devs |-> UpdateFailures(devs[i], rmap[devs[i].name]) ]
    IN  IF _evaluate_unlock(devs, rmap)
        THEN [ is_locked |-> Commit(locked, act.ok, FALSE),
               devices |-> upd, controller |-> act.ctl,
               calls |-> << [op |-> "wake_system", ok |-> act.ok] >>,
               raised |-> act.raised,
               evaluated |-> [which |-> "unlock", result |-> TRUE],
               abs_votes |-> {},
               events |-> LogTransition(act.ok, "SYSTEM_UNLOCKED", rmap) ]
        ELSE [ is_locked |-> locked,
               devices |-> upd, controller |-> ctl,
               calls |-> << >>,
               raised |-> FALSE,
               evaluated |-> [which |-> "unlock", result |-> FALSE],
               abs_votes |-> {},
               events |-> << >> ]

\* Mutant of LockedBranch: a device that is far or absent vetoes the wake.
LockedBranch_FarVeto(locked, devs, rmap, ctl, wakeOs) ==
    LET act == wake_system(ctl, wakeOs)
        near == _evaluate_unlock(devs, rmap)
        far == \E i \in DOMAIN devs :
                  \/ IsNone(rmap[devs[i].name])
                  \/ FarVote(devs[i], rmap[devs[i].name])
    IN  IF near /\ ~far
        THEN [ is_locked |-> Commit(locked, act.ok, FALSE),
               devices |-> devs, controller |-> act.ctl,
               calls |-> << [op |-> "wake_system", ok |-> act.ok] >>,
               raised |-> act.raised,
               evaluated |-> [which |-> "unlock", result |-> TRUE],
               abs_votes |-> {},
               events |-> LogTransition(act.ok, "SYSTEM_UNLOCKED", rmap) ]
        ELSE [ is_locked |-> locked,
               devices |-> devs, controller |-> ctl,
               calls |-> << >>,
               raised |-> FALSE,
               evaluated |-> [which |-> "unlock", result |-> near],
               abs_votes |-> {},
               events |-> << >> ]

\* monitor_loop, lines 220-226: the branch of a cycle that begins Locked.
LockedBranch(locked, devs, rmap, ctl, wakeOs) ==
    LET act == wake_system(ctl, wakeOs)
    IN  IF _evaluate_unlock(devs, rmap)
        THEN [ is_locked |-> Commit(locked, act.ok, FALSE),
               devices |-> devs, controller |-> act.ctl,
               calls |-> << [op |-> "wake_system", ok |-> act.ok] >>,
               raised |-> act.raised,
               evaluated |-> [which |-> "unlock", result |-> TRUE],
               abs_votes |-> {},
               events |-> LogTransition(act.ok, "SYSTEM_UNLOCKED", rmap) ]
        ELSE [ is_locked |-> locked,
               devices |-> devs, controller |-> ctl,
               calls |-> << >>,
               raised |-> FALSE,
               evaluated |-> [which |-> "unlock", result |-> FALSE],
               abs_votes |-> {},
               events |-> << >> ]

\* Mutant of CycleBody: the lock branch runs whatever is_locked is.
CycleBody_IgnoresState(locked, devs, rmap, F, ctl, lockOs, wakeOs) ==
    UnlockedBranch(locked, devs, rmap, F, ctl, lockOs)

\* Mutant of CycleBody: the second branch is an "if self.is_locked" of its
\* own instead of the "else", so it also runs after a lock was committed.
CycleBody_FallThrough(locked, devs, rmap, F, ctl, lockOs, wakeOs) ==
    IF locked
    THEN LockedBranch(locked, devs, rmap, ctl, wakeOs)
    ELSE LET u == UnlockedBranch(locked, devs, rmap, F, ctl, lockOs)
             l == LockedBranch(u.is_locked, u.devices, rmap, u.controller, wakeOs)
         IN  IF u.is_locked
             THEN [ l EXCEPT !.calls = u.calls \o l.calls,
                             !.raised = u.raised \/ l.raised,
                             !.evaluated = u.evaluated,
                             !.abs_votes = u.abs_votes,
                             !.events = u.events \o l.events ]
             ELSE u

\* monitor_loop, lines 212-226: if not self.is_locked ... else ...
CycleBody(locked, devs, rmap, F, ctl, lockOs, wakeOs) ==
    IF ~locked
    THEN UnlockedBranch(locked, devs, rmap, F, ctl, lockOs)
    ELSE LockedBranch(locked, devs, rmap, ctl, wakeOs)

\* ------------------------------------- the single-device controller
\* Mutant of _should_lock: a reading at LOCK_THRESHOLD counts as far.
_should_lock_Inclusive(cf, rssi, pair, F) ==
    IF IsNone(rssi)
    THEN [ consecutive_failures |-> cf + 1, result |-> cf + 1 >= F ]
    ELSE [ consecutive_failures |-> 0, result |-> rssi.val <= pair[1] ]

\* main_controller.ProximityLockController._should_lock: the counter after
\* the call and the value returned.
_should_lock(cf, rssi, pair, F) ==
    IF IsNone(rssi)
    THEN [ consecutive_failures |-> cf + 1, result |-> cf + 1 >= F ]
    ELSE [ consecutive_failures |-> 0, result |-> rssi.val < pair[1] ]

\* Mutant of _should_unlock: the comparison is the wrong way round.
_should_unlock_Flipped(rssi, pair) ==
    IF IsNone(rssi) THEN FALSE ELSE rssi.val < pair[2]

\* main_controller.ProximityLockController._should_unlock.
_should_unlock(rssi, pair) ==
    IF IsNone(rssi) THEN FALSE ELSE rssi.val > pair[2]

\* main_controller.ProximityLockController.monitor_loop, lines 200-211: the
\* body of one cycle on the reading rssi; sg is the controller's state.
SingleCycle(sg, rssi, pair, F, lockOs, wakeOs) ==
    IF ~sg.is_locked
    THEN LET v == _should_lock(sg.consecutive_failures, rssi, pair, F)
             act == lock_system(sg.controller, lockOs)
         IN  IF v.result
             THEN [ is_locked |-> IF act.ok THEN TRUE ELSE sg.is_locked,
                    consecutive_failures |-> v.consecutive_failures,
                    controller |-> act.ctl,
                    calls |-> << [op |-> "lock_system", ok |-> act.ok] >> ]
             ELSE [ is_locked |-> sg.is_locked,
                    consecutive_failures |-> v.consecutive_failures,
                    controller |-> sg.controller,
                    calls |-> << >> ]
    ELSE LET act == wake_system(sg.controller, wakeOs)
         IN  IF _should_unlock(rssi, pair)
             THEN [ is_locked |-> IF act.ok THEN FALSE ELSE sg.is_locked,
                    consecutive_failures |-> sg.consecutive_failures,
                    controller |-> act.ctl,
                    calls |-> << [op |-> "wake_system", ok |-> act.ok] >> ]
             ELSE [ is_locked |-> sg.is_locked,
                    consecutive_failures |-> sg.consecutive_failures,
                    controller |-> sg.controller,
                    calls |-> << >> ]

\* ------------------------------------------------- how monitor_loop ends
\* Mutant of monitor_loop_except: the handler of Exception logs the error
\* but does not re-raise it.
monitor_loop_except_NoRaise(exc) ==
    CASE exc = "CancelledError" -> [ pc |-> "returned", log |-> << >> ]
      [] exc = "KeyboardInterrupt" -> [ pc |-> "returned", log |-> << >> ]
      [] OTHER -> [ pc |-> "returned", log |-> << "Fatal error" >> ]

\* monitor_loop, lines 230-240: CancelledError and KeyboardInterrupt are
\* swallowed and the coroutine returns; any other Exception is logged once
\* with log_error and re-raised.
monitor_loop_except(exc) ==
    CASE exc = "CancelledError" -> [ pc |-> "returned", log |-> << >> ]
      [] exc = "KeyboardInterrupt" -> [ pc |-> "returned", log |-> << >> ]
      [] OTHER -> [ pc |-> "raised", log |-> << "Fatal error" >> ]

\* run, lines 272-283: what follows loop.run_until_complete, by the way it
\* ended -- KeyboardInterrupt: shutdown(); Exception: log_error and
\* shutdown(); a normal return: neither.
run_except(how) ==
    CASE how = "interrupted" -> [ log |-> << >>, shutdown |-> TRUE ]
      [] how = "raised" -> [ log |-> << "Unhandled exception" >>, shutdown |-> TRUE ]
      [] OTHER -> [ log |-> << >>, shutdown |-> FALSE ]

\* ------------------------------------------------------------ construction
\* Mutant of validate_config: the threshold order is not checked.
validate_config_NoCheck(pair) ==
    TRUE

\* config_module.validate_config, lines 75-79: raises unless
\* LOCK_THRESHOLD < UNLOCK_THRESHOLD (TRUE: it returns).
validate_config(pair) ==
    ~(pair[1] >= pair[2])

\* Mutant of InitialLocked: the controller assumes a locked session.
InitialLocked_True == TRUE

\* ProximityLockController.__init__, line 55.
InitialLocked == FALSE

\* TargetDevice as _load_devices_from_config and _init_scanners leave it.
TargetDevice(n, pair, sc) ==
    [ name |-> n, lock_threshold |-> pair[1], unlock_threshold |-> pair[2],
      scanner |-> sc, consecutive_failures |-> 0 ]

NotEnded == [ exc |-> "none", at |-> "none" ]

\* main_controller.ProximityLockController.__init__, lines 53-54, with its
\* WindowsSystemController; calls: the actuator calls of its last cycle.
SingleInit ==
    [ is_locked |-> FALSE, consecutive_failures |-> 0,
      controller |-> [ current_state |-> "UNKNOWN", lock_count |-> 0, unlock_count |-> 0 ],
      calls |-> << >> ]

\* The state after ProximityLockController() in run: __init__ runs
\* validate_config first; when it raises no controller is built, otherwise
\* the devices are loaded from the configuration. WindowsSystemController
\* starts UNKNOWN with both counters 0.
Init ==
    /\ thresholds \in ConfigPairs
    /\ \E n \in 1..Len(DeviceNames) :
         \E sc \in [1..n -> {"ok", "None"}] :
            devices = IF validate_config(thresholds)
                      THEN [ i \in 1..n |-> TargetDevice(DeviceNames[i], thresholds, sc[i]) ]
                      ELSE << >>
    /\ fail_threshold \in 1..MaxFailThreshold
    /\ is_locked = InitialLocked
    /\ scan_count = 0
    /\ controller = [ current_state |-> "UNKNOWN", lock_count |-> 0, unlock_count |-> 0 ]
    /\ pc = IF validate_config(thresholds) THEN "start" ELSE "config_error"
    /\ tasks = [ i \in Idx |-> Idle ]
    /\ rssi_map = [ n \in NameSet |-> None ]
    /\ probe = [ i \in Idx |-> NoProbe ]
    /\ began_locked = FALSE
    /\ calls = << >>
    /\ prev_calls = << >>
    /\ evaluated = [which |-> "none", result |-> FALSE]
    /\ abs_votes = {}
    /\ events = << >>
    /\ absent_run = [ i \in Idx |-> 0 ]
    /\ task_cycle = [ i \in Idx |-> 0 ]
    /\ map_cycle = 0
    /\ ended_by = NotEnded
    /\ error_log = << >>
    /\ shutdown_called = FALSE
    /\ err_run = [ i \in Idx |-> 0 ]
    /\ single = SingleInit
    /\ done_order = << >>
    /\ cycle_log = << >>
    /\ tally = [ locks |-> 0, wakes |-> 0, cycles |-> 0 ]

\* ------------------------------------------------------------------ actions
\* monitor_loop, lines 198-200 (and the return of asyncio.sleep, line 228):
\* a cycle begins, scan_count is incremented and _scan_all creates one
\* _scan_device task per device. The finished cycle's local rssi_map is dead
\* from here on (it is rebound at line 200) and is cleared with the record of
\* what that cycle evaluated.
\* count: the value scan_count takes.
BeginCycleTo(count) ==
    /\ pc \in {"start", "sleeping"}
    /\ scan_count' = count
    /\ tasks' = [ i \in Idx |-> Running ]
    /\ task_cycle' = [ i \in Idx |-> count ]
    /\ probe' = [ i \in Idx |-> NoProbe ]
    /\ began_locked' = is_locked
    /\ pc' = "scanning"
    /\ rssi_map' = [ n \in NameSet |-> None ]
    /\ evaluated' = [which |-> "none", result |-> FALSE]
    /\ abs_votes' = {}
    /\ events' = << >>
    /\ UNCHANGED << devices, is_locked, controller, absent_run, map_cycle,
                    cfgVars, calls, prev_calls, runVars >>

\* The cycles up to MaxCycles are explored.
BeginCycle ==
    /\ scan_count < MaxCycles
    /\ BeginCycleTo(scan_count + 1)

\* Mutant of ScanDevice: the scan task itself counts the device's failure
\* (or resets the counter) when it completes.
ScanDevice_CountsFailure(i) ==
    /\ pc = "scanning"
    /\ tasks[i] = Running
    /\ \E outcome \in DiscoverOutcomes :
         /\ devices[i].scanner = "None" => outcome = NotFound
         /\ probe' = [probe EXCEPT ![i] = IF devices[i].scanner = "None" THEN NoProbe ELSE outcome]
         /\ tasks' = [tasks EXCEPT ![i] = _scan_device(devices[i], outcome)]
         /\ devices' = [devices EXCEPT ![i] =
                           UpdateFailures(devices[i], _scan_device(devices[i], outcome))]
    /\ UNCHANGED << is_locked, scan_count, controller, pc, rssi_map,
                    absent_run, task_cycle, map_cycle, cfgVars, cycleVars, runVars >>

\* One _scan_device task runs to completion; the tasks of a cycle complete in
\* any order.
\* outcome: what the discovery of this scan does.
ScanDeviceWith(i, outcome) ==
    /\ pc = "scanning"
    /\ tasks[i] = Running
    /\ devices[i].scanner = "None" => outcome = NotFound
    /\ probe' = [probe EXCEPT ![i] = IF devices[i].scanner = "None" THEN NoProbe ELSE outcome]
    /\ tasks' = [tasks EXCEPT ![i] = _scan_device(devices[i], outcome)]
    /\ UNCHANGED << devices, is_locked, scan_count, controller, pc, rssi_map,
                    absent_run, task_cycle, map_cycle, cfgVars, cycleVars, runVars >>

ScanDevice(i) ==
    \E outcome \in DiscoverOutcomes : ScanDeviceWith(i, outcome)

\* Mutant of Gather: the join returns as soon as one task is done; the
\* readings of the tasks still running are absent and those tasks go on.
Gather_FirstCompleted ==
    /\ pc = "scanning"
    /\ \E i \in Idx : tasks[i] # Running
    /\ rssi_map' = _scan_all(devices, [ i \in Idx |-> IF tasks[i] = Running THEN None
                                                       ELSE tasks[i] ])
    /\ map_cycle' = scan_count
    /\ absent_run' = [ i \in Idx |->
                         IF IsNone(rssi_map'[devices[i].name]) THEN absent_run[i] + 1 ELSE 0 ]
    /\ tasks' = [ i \in Idx |-> IF tasks[i] = Running THEN Running ELSE Idle ]
    /\ task_cycle' = [ i \in Idx |-> IF tasks[i] = Running THEN task_cycle[i] ELSE 0 ]
    /\ pc' = "evaluate"
    /\ UNCHANGED << devices, is_locked, scan_count, controller, probe,
                    cfgVars, cycleVars, runVars >>

\* asyncio.gather returns once every task is done and _scan_all builds the
\* rssi_map of the cycle.
Gather ==
    /\ pc = "scanning"
    /\ \A i \in Idx : tasks[i].kind \notin {"idle", "running"}
    /\ rssi_map' = _scan_all(devices, tasks)
    /\ map_cycle' = scan_count
    /\ absent_run' = [ i \in Idx |->
                         IF IsNone(rssi_map'[devices[i].name]) THEN absent_run[i] + 1 ELSE 0 ]
    /\ tasks' = [ i \in Idx |-> Idle ]
    /\ task_cycle' = [ i \in Idx |-> 0 ]
    /\ pc' = "evaluate"
    /\ UNCHANGED << devices, is_locked, scan_count, controller, probe,
                    cfgVars, cycleVars, runVars >>

\* The synchronous rest of the cycle: evaluation, at most one actuator call,
\* the commit of is_locked; the loop then awaits asyncio.sleep. (An exception
\* leaving the actuator would go through the except clauses of monitor_loop.)
\* lockOs, wakeOs: what the operating system does with the request if one
\* is made.
EvaluateAndActWith(lockOs, wakeOs) ==
    /\ pc = "evaluate"
    /\ LET r == CycleBody(is_locked, devices, rssi_map, fail_threshold,
                          controller, lockOs, wakeOs)
           h == monitor_loop_except("Exception")
       IN  /\ is_locked' = r.is_locked
           /\ devices' = r.devices
           /\ controller' = r.controller
           /\ calls' = r.calls
           /\ prev_calls' = calls
           /\ evaluated' = r.evaluated
           /\ abs_votes' = r.abs_votes
           /\ events' = r.events
           /\ pc' = IF r.raised THEN h.pc ELSE "sleeping"
           /\ error_log' = IF r.raised THEN error_log \o h.log ELSE error_log
           /\ ended_by' = IF r.raised THEN [exc |-> "Exception", at |-> "actuator"]
                          ELSE ended_by
    /\ UNCHANGED << scan_count, tasks, rssi_map, probe, absent_run, task_cycle,
                    map_cycle, cfgVars, began_locked, shutdown_called >>

EvaluateAndAct ==
    \E lockOs \in LockOsOutcomes, wakeOs \in WakeOsOutcomes :
        EvaluateAndActWith(lockOs, wakeOs)

\* _evaluate_lock interrupted by an exception raised while device k is
\* handled: the counters of the devices up to k are already written.
EvaluatedUpTo(devs, rmap, k) ==
    [ i \in DOMAIN devs |->
        IF i <= k THEN UpdateFailures(devs[i], rmap[devs[i].name]) ELSE devs[i] ]

\* An exception is raised inside the cycle body, outside the scans and the
\* actuator: an unexpected Exception (a failing log call, a type error) or a
\* KeyboardInterrupt delivered while the body runs. It strikes in the logging
\* of lines 203-210 (nothing done yet), inside the evaluation (lines 163-178,
\* 185-191), or after the transition was committed (lines 218-219, 225-226),
\* and reaches the except clauses of monitor_loop.
RaiseInBody ==
    /\ pc = "evaluate"
    /\ \E exc \in {"Exception", "KeyboardInterrupt"} :
         LET h == monitor_loop_except(exc) IN
         /\ pc' = h.pc
         /\ error_log' = error_log \o h.log
         /\ \/ /\ ended_by' = [exc |-> exc, at |-> "log_info"]
               /\ UNCHANGED << devices, is_locked, controller, cycleVars >>
            \/ /\ ended_by' = [exc |-> exc, at |-> "evaluate"]
               /\ \E k \in Idx :
                    devices' = IF is_locked THEN devices
                               ELSE EvaluatedUpTo(devices, rssi_map, k)
               /\ UNCHANGED << is_locked, controller, cycleVars >>
            \/ /\ ended_by' = [exc |-> exc, at |-> "log_transition"]
               /\ \E lockOs \in LockOsOutcomes, wakeOs \in WakeOsOutcomes :
                    LET r == CycleBody(is_locked, devices, rssi_map, fail_threshold,
                                       controller, lockOs, wakeOs)
                    IN  /\ r.calls # << >> /\ r.calls[Len(r.calls)].ok
                        /\ is_locked' = r.is_locked
                        /\ devices' = r.devices
                        /\ controller' = r.controller
                        /\ calls' = r.calls
                        /\ prev_calls' = calls
                        /\ evaluated' = r.evaluated
                        /\ abs_votes' = r.abs_votes
                        /\ events' = r.events
               /\ UNCHANGED began_locked
    /\ UNCHANGED << scan_count, tasks, rssi_map, probe, absent_run, task_cycle,
                    map_cycle, cfgVars, shutdown_called >>

\* Mutant of Cancel: a cancellation in the scan join is absorbed like a scan
\* failure and the cycle goes on with the readings that had arrived.
Cancel_EvaluatesPartial ==
    /\ pc \in {"scanning", "sleeping"}
    /\ pc' = IF pc = "scanning" THEN "evaluate"
             ELSE monitor_loop_except("CancelledError").pc
    /\ error_log' = error_log
    /\ ended_by' = [exc |-> "CancelledError", at |-> pc]
    /\ rssi_map' = IF pc = "scanning"
                   THEN _scan_all(devices, [ i \in Idx |-> IF tasks[i] = Running THEN None
                                                            ELSE tasks[i] ])
                   ELSE rssi_map
    /\ tasks' = [ i \in Idx |-> Idle ]
    /\ task_cycle' = [ i \in Idx |-> 0 ]
    /\ UNCHANGED << devices, is_locked, scan_count, controller, probe,
                    absent_run, map_cycle, cfgVars, cycleVars, shutdown_called >>

\* The task running monitor_loop is cancelled while it is suspended in the
\* gather of _scan_all (line 147, the scan tasks are cancelled with it) or in
\* asyncio.sleep (line 228): CancelledError is raised at the await.
Cancel ==
    /\ pc \in {"scanning", "sleeping"}
    /\ pc' = monitor_loop_except("CancelledError").pc
    /\ error_log' = error_log \o monitor_loop_except("CancelledError").log
    /\ ended_by' = [exc |-> "CancelledError", at |-> pc]
    /\ tasks' = [ i \in Idx |-> Idle ]
    /\ task_cycle' = [ i \in Idx |-> 0 ]
    /\ UNCHANGED << devices, is_locked, scan_count, controller, rssi_map, probe,
                    absent_run, map_cycle, cfgVars, cycleVars, shutdown_called >>

\* Ctrl+C while monitor_loop is suspended (the event loop waits for the scans
\* or for the sleep timer): KeyboardInterrupt is raised in the event loop and
\* leaves loop.run_until_complete, the coroutine is not resumed.
Interrupt ==
    /\ pc \in {"scanning", "sleeping"}
    /\ pc' = "interrupted"
    /\ ended_by' = [exc |-> "KeyboardInterrupt", at |-> pc]
    /\ UNCHANGED << devices, is_locked, scan_count, controller, tasks, rssi_map, probe,
                    absent_run, task_cycle, map_cycle, cfgVars, cycleVars,
                    error_log, shutdown_called >>

\* run, lines 272-298: the except clauses around loop.run_until_complete,
\* then the process ends.
RunFinish ==
    /\ pc \in {"returned", "raised", "interrupted"}
    /\ error_log' = error_log \o run_except(pc).log
    /\ shutdown_called' = run_except(pc).shutdown
    /\ pc' = "exited"
    /\ UNCHANGED << devices, is_locked, scan_count, controller, tasks, rssi_map, probe,
                    absent_run, task_cycle, map_cycle, cfgVars, cycleVars, ended_by >>

Next ==
    \/ BeginCycle /\ UNCHANGED histVars
    \/ (\E i \in Idx : ScanDevice(i)) /\ UNCHANGED histVars
    \/ Gather /\ UNCHANGED histVars
    \/ EvaluateAndAct /\ UNCHANGED histVars
    \/ RaiseInBody /\ UNCHANGED histVars
    \/ Cancel /\ UNCHANGED histVars
    \/ Interrupt /\ UNCHANGED histVars
    \/ RunFinish /\ UNCHANGED histVars

Spec == Init /\ [][Next]_vars

\* ------------------------------------ the two controllers side by side
\* The multi-device controller configured with the phone only, and the
\* single-device controller of main_controller.py given, in every cycle, the
\* reading the multi-device controller got for the phone and the same
\* answers of the operating system.
InitPair ==
    /\ Init
    /\ Len(devices) = 1

NextPair ==
    \/ BeginCycle /\ UNCHANGED histVars
    \/ (\E i \in Idx : ScanDevice(i)) /\ UNCHANGED histVars
    \/ Gather /\ UNCHANGED histVars
    \/ \E lockOs \in LockOsOutcomes, wakeOs \in WakeOsOutcomes :
         /\ EvaluateAndActWith(lockOs, wakeOs)
         /\ single' = SingleCycle(single, rssi_map["phone"], thresholds,
                                  fail_threshold, lockOs, wakeOs)
         /\ UNCHANGED << err_run, done_order, cycle_log, tally >>

SpecPair == InitPair /\ [][NextPair]_vars

\* SpecPair with the run so far in cycle_log: for every evaluated cycle the
\* phone's reading, whether every actuator call of the cycle succeeded, and
\* the single-device controller's is_locked after the cycle.
NextPairLog ==
    \/ BeginCycle /\ UNCHANGED histVars
    \/ (\E i \in Idx : ScanDevice(i)) /\ UNCHANGED histVars
    \/ Gather /\ UNCHANGED histVars
    \/ \E lockOs \in LockOsOutcomes, wakeOs \in WakeOsOutcomes :
         /\ EvaluateAndActWith(lockOs, wakeOs)
         /\ single' = SingleCycle(single, rssi_map["phone"], thresholds,
                                  fail_threshold, lockOs, wakeOs)
         /\ cycle_log' = Append(cycle_log,
                                [ rssi |-> rssi_map["phone"],
                                  ok |-> \A k \in DOMAIN calls' : calls'[k].ok,
                                  locked |-> single'.is_locked ])
         /\ UNCHANGED << err_run, done_order, tally >>

SpecPairLog == InitPair /\ [][NextPairLog]_vars

\* ------------------------------------------ the loop with its scan errors
\* The BleakError runs of the devices after a cycle that began with `locked`.
ErrRunAfter(locked) ==
    [ i \in Idx |-> IF ~locked /\ probe[i] = AdapterError THEN err_run[i] + 1 ELSE 0 ]

\* The monitor loop left to run, with the history of the scans that raised.
NextScanErrors ==
    \/ BeginCycle /\ UNCHANGED histVars
    \/ (\E i \in Idx : ScanDevice(i)) /\ UNCHANGED histVars
    \/ Gather /\ UNCHANGED histVars
    \/ /\ EvaluateAndAct
       /\ err_run' = ErrRunAfter(is_locked)
       /\ UNCHANGED << single, done_order, cycle_log, tally >>

SpecScanErrors == Init /\ [][NextScanErrors]_vars

\* ------------------------------ the loop with the order of its scans
\* The monitor loop left to run, with the order in which the scan tasks of
\* the cycle completed.
NextScanOrder ==
    \/ /\ BeginCycle
       /\ done_order' = << >>
       /\ UNCHANGED << err_run, single, cycle_log, tally >>
    \/ \E i \in Idx :
         /\ ScanDevice(i)
         /\ done_order' = Append(done_order, i)
         /\ UNCHANGED << err_run, single, cycle_log, tally >>
    \/ Gather /\ UNCHANGED histVars
    \/ EvaluateAndAct /\ UNCHANGED histVars

SpecScanOrder == Init /\ [][NextScanOrder]_vars

\* The calls a step out of the cycle body made: those of the cycle when the
\* body reached the branch's end, none when it was left before the branch.
CallsMade ==
    IF pc' = "sleeping" \/ ended_by'.at \in {"log_transition", "actuator"}
    THEN calls'
    ELSE << >>

CountOf(made, op) ==
    Cardinality({ k \in DOMAIN made : made[k].op = op /\ made[k].ok })

\* Spec with the tally of what happened: every cycle started and every
\* actuator call that returned true is counted as it happens.
NextTally ==
    \/ /\ BeginCycle
       /\ tally' = [tally EXCEPT !.cycles = @ + 1]
       /\ UNCHANGED << err_run, single, done_order, cycle_log >>
    \/ (\E i \in Idx : ScanDevice(i)) /\ UNCHANGED histVars
    \/ Gather /\ UNCHANGED histVars
    \/ /\ EvaluateAndAct
       /\ tally' = [tally EXCEPT !.locks = @ + CountOf(CallsMade, "lock_system"),
                                 !.wakes = @ + CountOf(CallsMade, "wake_system")]
       /\ UNCHANGED << err_run, single, done_order, cycle_log >>
    \/ /\ RaiseInBody
       /\ tally' = [tally EXCEPT !.locks = @ + CountOf(CallsMade, "lock_system"),
                                 !.wakes = @ + CountOf(CallsMade, "wake_system")]
       /\ UNCHANGED << err_run, single, done_order, cycle_log >>
    \/ Cancel /\ UNCHANGED histVars
    \/ Interrupt /\ UNCHANGED histVars
    \/ RunFinish /\ UNCHANGED histVars

SpecTally == Init /\ [][NextTally]_vars

\* The two-device loop in the runs where every evaluated cycle has a lock
\* vote of one device and an unlock vote of the other, and the operating
\* system performs every request.
OpposedVotes ==
    \E i, j \in Idx :
       /\ i # j
       /\ LET ri == rssi_map[devices[i].name]
              rj == rssi_map[devices[j].name]
          IN  /\ IF IsNone(ri)
                 THEN devices[i].consecutive_failures + 1 >= fail_threshold
                 ELSE ri.val < devices[i].lock_threshold
              /\ ~IsNone(rj) /\ rj.val > devices[j].unlock_threshold

InitAlternate ==
    /\ Init
    /\ Len(devices) = 2

NextAlternate ==
    \/ BeginCycle /\ UNCHANGED histVars
    \/ (\E i \in Idx : ScanDevice(i)) /\ UNCHANGED histVars
    \/ Gather /\ UNCHANGED histVars
    \/ /\ OpposedVotes
       /\ EvaluateAndActWith("zero", "done")
       /\ UNCHANGED histVars

SpecAlternate == InitAlternate /\ [][NextAlternate]_vars

\* The loop running for ever (while self.running, line 197, with the flag
\* never cleared and no exception): every device has a scanner and is
\* observed in every cycle with a reading at or below its unlock_threshold,
\* so the failure counters stay 0 and no cycle has an unlock vote. scan_count
\* is followed up to MaxCycles and then held.
InitLive ==
    /\ Init
    /\ pc = "start"
    /\ \A i \in Idx : devices[i].scanner = "ok"

NextLive ==
    \/ /\ BeginCycleTo(IF scan_count < MaxCycles THEN scan_count + 1 ELSE MaxCycles)
       /\ UNCHANGED histVars
    \/ \E i \in Idx, r \in RssiValues :
         /\ r <= devices[i].unlock_threshold
         /\ ScanDeviceWith(i, Found(r))
         /\ UNCHANGED histVars
    \/ Gather /\ UNCHANGED histVars
    \/ EvaluateAndAct /\ UNCHANGED histVars

\* A cycle in which lock_system is called and the operating system performs
\* the lock.
LockSucceeds ==
    /\ \E wakeOs \in WakeOsOutcomes : EvaluateAndActWith("zero", wakeOs)
    /\ calls' # << >>
    /\ UNCHANGED histVars

\* The event loop keeps running the monitor task (every await of the loop
\* completes), and the actuator does not fail for ever: of infinitely many
\* lock_system calls one is performed by the operating system.
SpecLive ==
    /\ InitLive
    /\ [][NextLive]_vars
    /\ WF_vars(NextLive)
    /\ SF_vars(LockSucceeds)

\* =================================================================== claims
\* The step in which a cycle is evaluated and its actuator call is made; in
\* its first state rssi_map holds the cycle's readings, the devices hold the
\* counters the cycle began with, and calls holds the previous cycle's calls.
EvalStep == pc = "evaluate" /\ pc' = "sleeping"

\* Any step that runs the body of a cycle after its scans: EvalStep, or the
\* body left by an exception.
BodyStep == pc = "evaluate" /\ pc' # "evaluate"

\* The reading of device i in the current cycle.
Reading(i) == rssi_map[devices[i].name]
Present(i) == ~IsNone(Reading(i))

\* The votes as the specification words them, over the readings of the cycle
\* and the counters the cycle began with.
SpecLockVote(i) ==
    \/ Present(i) /\ Reading(i).val < devices[i].lock_threshold
    \/ ~Present(i) /\ devices[i].consecutive_failures + 1 >= fail_threshold
SpecUnlockVote(i) ==
    Present(i) /\ Reading(i).val > devices[i].unlock_threshold
InDeadZone(i) ==
    /\ Present(i)
    /\ devices[i].lock_threshold <= Reading(i).val
    /\ Reading(i).val <= devices[i].unlock_threshold

\* C1: is_locked changes in a cycle only if that cycle's actuator call
\* (lock_system from Unlocked, wake_system from Locked) returned true; a call
\* that returns false leaves is_locked unchanged; and after a failed call, if
\* the same vote holds in the next cycle, the same call is made again.
C1_CommitOnlyOnSuccess ==
    [][ /\ ~BodyStep => is_locked' = is_locked
        /\ (BodyStep /\ is_locked' # is_locked) =>
             calls' = << [ op |-> IF is_locked THEN "wake_system" ELSE "lock_system",
                           ok |-> TRUE ] >>
        /\ EvalStep =>
             /\ (\E k \in DOMAIN calls' : ~calls'[k].ok) => is_locked' = is_locked
             /\ ( /\ calls # << >>
                  /\ ~calls[1].ok
                  /\ IF calls[1].op = "lock_system"
                     THEN \E i \in Idx : SpecLockVote(i)
                     ELSE \E i \in Idx : SpecUnlockVote(i) )
                => (calls' # << >> /\ calls'[1].op = calls[1].op)
      ]_vars

\* C1 witness: a lock attempt failed in one cycle, was made again in the next
\* and committed there.
C1_Witness ==
    /\ pc = "sleeping"
    /\ prev_calls = << [op |-> "lock_system", ok |-> FALSE] >>
    /\ calls = << [op |-> "lock_system", ok |-> TRUE] >>
    /\ ~began_locked /\ is_locked

\* C2, the full equivalence: at the end of every cycle, an absence-driven
\* lock vote has been asserted for a device exactly when the device's reading
\* was absent in that cycle and in the F-1 cycles immediately before it.
C2_AbsenceVoteIffRun ==
    pc = "sleeping" =>
        \A i \in Idx : (i \in abs_votes) <=> (absent_run[i] >= fail_threshold)

\* C2: an absence-driven lock vote is asserted for a device in a cycle only
\* if the device's reading was absent in that cycle and in the F-1 cycles
\* immediately before it: the system is never locked because of fewer than F
\* consecutive absent readings of a device.
C2_NoVoteBeforeRun ==
    pc = "sleeping" =>
        \A i \in Idx : (i \in abs_votes) => (absent_run[i] >= fail_threshold)

\* C3: at the end of every cycle in which a device produced a present
\* reading, that device's consecutive_failures is 0.
C3_PresentResetsFailures ==
    pc = "sleeping" =>
        \A i \in Idx : Present(i) => devices[i].consecutive_failures = 0

\* C4: a present reading r with lock_threshold <= r <= unlock_threshold gives
\* neither vote: every vote comes from a device outside its dead zone, and
\* when every device is in its dead zone there is no vote, no actuator call
\* and no state change.
C4_DeadZoneNoVote ==
    [][ EvalStep =>
          /\ \A i \in Idx : devices[i].unlock_threshold > devices[i].lock_threshold
          /\ evaluated'.result =>
               \E j \in Idx : /\ ~InDeadZone(j)
                              /\ IF is_locked THEN SpecUnlockVote(j) ELSE SpecLockVote(j)
          /\ (\A i \in Idx : InDeadZone(i)) =>
               /\ ~evaluated'.result
               /\ calls' = << >>
               /\ is_locked' = is_locked
               /\ controller' = controller
      ]_vars

\* C4 witness: a cycle that began Unlocked with the phone exactly at its
\* lock_threshold and the headphones exactly at their unlock_threshold ended
\* with no call and no change.
C4_Witness ==
    /\ pc = "sleeping"
    /\ Len(devices) = 2
    /\ Present(1) /\ Reading(1).val = devices[1].lock_threshold
    /\ Present(2) /\ Reading(2).val = devices[2].unlock_threshold
    /\ ~began_locked /\ ~is_locked
    /\ evaluated = [which |-> "lock", result |-> FALSE]
    /\ calls = << >>

\* C5: _evaluate_unlock returns true iff some device has a present reading
\* strictly above its own unlock_threshold, whatever the other devices read.
C5_UnlockIffSomeNear ==
    (pc = "sleeping" /\ evaluated.which = "unlock") =>
        (evaluated.result <=>
            \E i \in Idx : Present(i) /\ Reading(i).val > devices[i].unlock_threshold)

\* C5 witness: _evaluate_unlock returned true on the headphones' reading
\* while the phone was absent.
C5_Witness ==
    /\ pc = "sleeping"
    /\ evaluated = [which |-> "unlock", result |-> TRUE]
    /\ Len(devices) = 2
    /\ ~Present(1)
    /\ Present(2) /\ Reading(2).val > devices[2].unlock_threshold

\* C6: _evaluate_lock returns true iff at least one device contributes a
\* lock vote (present below lock_threshold, or absent with the incremented
\* counter at or above the failure threshold), and it updates the failure
\* counter of every device, those after the first voting device included.
C6_LockIffSomeVote ==
    [][ (EvalStep /\ ~is_locked) =>
          /\ evaluated'.which = "lock"
          /\ evaluated'.result <=> \E i \in Idx : SpecLockVote(i)
          /\ \A i \in Idx :
               devices'[i].consecutive_failures =
                  IF Present(i) THEN 0 ELSE devices[i].consecutive_failures + 1
      ]_vars

\* C6 witness: in the first cycle the phone voted lock with a far reading
\* and the absent headphones, visited after it, had their counter raised.
C6_Witness ==
    /\ pc = "sleeping"
    /\ scan_count = 1
    /\ Len(devices) = 2
    /\ evaluated = [which |-> "lock", result |-> TRUE]
    /\ Present(1) /\ Reading(1).val < devices[1].lock_threshold
    /\ ~Present(2) /\ devices[2].consecutive_failures = 1

\* C7: when the scan of one device raises, the cycle still has an entry for
\* every device: the failing device's entry is absent and every other entry
\* is what that device's own discovery returned.
C7_ScanFailureIsolated ==
    pc = "evaluate" =>
        /\ DOMAIN rssi_map = NameSet
        /\ \A i \in Idx :
             Reading(i) = IF probe[i].what = "found" THEN Some(probe[i].rssi) ELSE None

\* C7 witness: the phone's scan raised an adapter error and the headphones'
\* entry is the reading their own scan found.
C7_Witness ==
    /\ pc = "evaluate"
    /\ Len(devices) = 2
    /\ probe[1] = AdapterError /\ ~Present(1)
    /\ probe[2] = Found(-65) /\ Reading(2) = Some(-65)

\* C8: at most one actuator call is made in a cycle, so is_locked changes at
\* most once per cycle: only the evaluation step changes it, that step makes
\* at most one call, and it runs once per cycle (after it the loop can only
\* go on to a new cycle, or end).
C8_OneCallPerCycle ==
    [][ /\ Len(calls') <= 1
        /\ (controller'.lock_count + controller'.unlock_count)
             - (controller.lock_count + controller.unlock_count) \in {0, 1}
        /\ is_locked' # is_locked => BodyStep
        /\ pc' = "evaluate" => pc \in {"scanning", "evaluate"}
        /\ pc = "sleeping" =>
             \/ pc' = "sleeping"
             \/ pc' = "scanning" /\ scan_count' = scan_count + 1
             \/ pc' \in {"returned", "interrupted"}
      ]_vars

\* C8 witness: a cycle in which one device was far and another in range
\* changed is_locked with exactly one call.
C8_Witness ==
    /\ pc = "sleeping"
    /\ Len(calls) = 1
    /\ is_locked # began_locked
    /\ \E i, j \in Idx :
         /\ Present(i) /\ Reading(i).val < devices[i].lock_threshold
         /\ Present(j) /\ Reading(j).val > devices[j].unlock_threshold

\* C9: in a cycle that begins Unlocked, wake_system is never called, and a
\* lock vote is acted on whatever the other devices read: lock_system is
\* called and on success the state becomes Locked.
C9_UnlockedOnlyLocks ==
    [][ (EvalStep /\ ~is_locked) =>
          /\ \A k \in DOMAIN calls' : calls'[k].op # "wake_system"
          /\ controller'.unlock_count = controller.unlock_count
          /\ (\E i \in Idx : SpecLockVote(i)) =>
               \E ok \in BOOLEAN :
                  /\ calls' = << [op |-> "lock_system", ok |-> ok] >>
                  /\ is_locked' = ok
      ]_vars

\* C9 witness: Unlocked, thresholds -80/-70, phone at -85 (lock vote) and
\* headphones at -65 (unlock vote): lock_system was called and the state is
\* Locked.
C9_Witness ==
    /\ pc = "sleeping"
    /\ Len(devices) = 2
    /\ devices[1].lock_threshold = -80 /\ devices[2].unlock_threshold = -70
    /\ Reading(1) = Some(-85) /\ Reading(2) = Some(-65)
    /\ ~began_locked /\ is_locked
    /\ calls = << [op |-> "lock_system", ok |-> TRUE] >>

\* C10: in a cycle that begins Locked, lock_system is never called, and an
\* unlock vote is acted on even when another device is far or absent:
\* wake_system is called and on success the state becomes Unlocked.
C10_LockedOnlyWakes ==
    [][ (EvalStep /\ is_locked) =>
          /\ \A k \in DOMAIN calls' : calls'[k].op # "lock_system"
          /\ controller'.lock_count = controller.lock_count
          /\ (\E i \in Idx : SpecUnlockVote(i)) =>
               \E ok \in BOOLEAN :
                  /\ calls' = << [op |-> "wake_system", ok |-> ok] >>
                  /\ is_locked' = ~ok
      ]_vars

\* C10 witness: Locked, the phone far and the headphones in range:
\* wake_system was called and the state is Unlocked.
C10_Witness ==
    /\ pc = "sleeping"
    /\ Len(devices) = 2
    /\ Present(1) /\ Reading(1).val < devices[1].lock_threshold
    /\ Present(2) /\ Reading(2).val > devices[2].unlock_threshold
    /\ began_locked /\ ~is_locked
    /\ calls = << [op |-> "wake_system", ok |-> TRUE] >>

\* C11: the controller starts with is_locked false while the actuator's
\* current_state is UNKNOWN; as long as current_state is UNKNOWN no call has
\* succeeded and the controller is Unlocked, so every actuator call made from
\* UNKNOWN, the first call of the run included, is lock_system and never
\* wake_system.
C11_FirstCallIsLock ==
    [][ /\ pc = "start" => (~is_locked /\ controller.current_state = "UNKNOWN")
        /\ controller.current_state = "UNKNOWN" =>
             /\ ~is_locked
             /\ controller.lock_count = 0 /\ controller.unlock_count = 0
             /\ BodyStep => \A k \in DOMAIN calls' : calls'[k].op = "lock_system"
             /\ BodyStep => controller'.current_state \in {"UNKNOWN", "LOCKED"}
      ]_vars

\* C11 witness: the first cycle of a run made the first actuator call, from
\* UNKNOWN, and it was lock_system.
C11_Witness ==
    /\ pc = "sleeping"
    /\ scan_count = 1
    /\ calls = << [op |-> "lock_system", ok |-> TRUE] >>
    /\ controller = [ current_state |-> "LOCKED", lock_count |-> 1, unlock_count |-> 0 ]

\* C12: lock_system and wake_system never raise to the loop: whatever the
\* operating system does, no exception leaves them, and when the underlying
\* call fails (non-zero status or exception) they return false with
\* current_state, lock_count and unlock_count unchanged; a cycle whose call
\* returned false leaves the actuator as it was.
C12_FailedCallChangesNothing ==
    [][ /\ \A os \in LockOsOutcomes :
             /\ ~lock_system(controller, os).raised
             /\ os # "zero" =>
                  lock_system(controller, os) =
                     [ ok |-> FALSE, raised |-> FALSE, ctl |-> controller ]
        /\ \A os \in WakeOsOutcomes :
             /\ ~wake_system(controller, os).raised
             /\ os # "done" =>
                  wake_system(controller, os) =
                     [ ok |-> FALSE, raised |-> FALSE, ctl |-> controller ]
        /\ ended_by'.at # "actuator"
        /\ (EvalStep /\ \E k \in DOMAIN calls' : ~calls'[k].ok) =>
             controller' = controller
      ]_vars

\* C12 witness: after one successful lock, a wake_system call failed and the
\* actuator still shows LOCKED with one lock and no unlock.
C12_Witness ==
    /\ pc = "sleeping"
    /\ began_locked /\ is_locked
    /\ calls = << [op |-> "wake_system", ok |-> FALSE] >>
    /\ controller = [ current_state |-> "LOCKED", lock_count |-> 1, unlock_count |-> 0 ]

\* The places of a cycle body where an exception from outside the scans and
\* the actuator strikes.
FaultPoints == { "log_info", "evaluate", "log_transition" }

\* C13: neither a scan failure nor an actuator call that returns false
\* terminates the loop: whatever the scans did the gather completes and the
\* cycle is evaluated, whatever the operating system answers no exception
\* leaves the body of the cycle by the actuator (so the body reaches the
\* sleep, and no loop was ever ended there), and from the sleep the next
\* cycle begins.
C13_FailuresDoNotStopLoop ==
    /\ (pc = "scanning" /\ \A i \in Idx : tasks[i] # Running) => ENABLED Gather
    /\ pc = "evaluate" =>
         \A lockOs \in LockOsOutcomes, wakeOs \in WakeOsOutcomes :
            ~CycleBody(is_locked, devices, rssi_map, fail_threshold,
                       controller, lockOs, wakeOs).raised
    /\ (pc = "sleeping" /\ scan_count < MaxCycles) => ENABLED BeginCycle
    /\ ended_by.at # "actuator"

\* C13 witness: the cycle after a failed lock_system call ran, one of its
\* scans raised, its own call failed too, and the loop is sleeping again.
C13_Witness ==
    /\ pc = "sleeping"
    /\ scan_count = 2
    /\ prev_calls = << [op |-> "lock_system", ok |-> FALSE] >>
    /\ calls = << [op |-> "lock_system", ok |-> FALSE] >>
    /\ \E i \in Idx : probe[i] = AdapterError
    /\ ended_by = NotEnded

\* What a cycle can change of the program: counters, lock state, actuator,
\* the calls it made and what it evaluated.
progVars == << devices, is_locked, scan_count, controller, calls, evaluated, rssi_map >>

\* The log_error entries monitor_loop wrote.
FatalEntries == { k \in DOMAIN error_log : error_log[k] = "Fatal error" }

\* C14: an exception raised inside a cycle outside the scan and actuator
\* phases is logged once as an error by monitor_loop and re-raised out of it,
\* and after it no further cycle, actuator call or state change happens.
C14_FatalErrorEndsLoop ==
    [][ /\ (pc = "evaluate" /\ ended_by'.exc = "Exception") =>
             /\ pc' = "raised"
             /\ error_log' = error_log \o << "Fatal error" >>
        /\ ended_by.exc = "Exception" =>
             /\ pc \in {"raised", "exited"} /\ pc' \in {"raised", "exited"}
             /\ Cardinality(FatalEntries) = 1
             /\ UNCHANGED progVars
             /\ \A i \in Idx : tasks'[i] = Idle
      ]_vars

\* C14 witness: in the first cycle an exception was raised by the logging of
\* the committed lock; it left monitor_loop and run ended with no further
\* cycle although more were possible.
C14_Witness ==
    /\ pc = "exited"
    /\ ended_by = [exc |-> "Exception", at |-> "log_transition"]
    /\ scan_count = 1 /\ scan_count < MaxCycles
    /\ is_locked
    /\ error_log[1] = "Fatal error"

\* C15: a cancellation delivered while the loop is suspended in the scan
\* join or in the sleep stops the loop without a partial cycle: the step
\* itself and every later step leave the failure counters, is_locked, the
\* scan and actuator counters unchanged, make no actuator call, evaluate no
\* reading (the scans in flight are dropped) and start no cycle.
C15_CancelStopsCleanly ==
    [][ /\ (pc \in {"scanning", "sleeping"} /\ ended_by'.exc = "CancelledError") =>
             /\ pc' = "returned"
             /\ UNCHANGED progVars
             /\ \A i \in Idx : tasks'[i] = Idle
             /\ error_log' = error_log
        /\ ended_by.exc = "CancelledError" =>
             /\ pc \in {"returned", "exited"} /\ pc' \in {"returned", "exited"}
             /\ UNCHANGED progVars
             /\ \A i \in Idx : tasks'[i] = Idle
      ]_vars

\* C15 witness: the loop was cancelled in the scan join of its second cycle
\* while one scan had completed with a far reading and the other was still
\* running; the program ended Unlocked with no reading evaluated.
C15_Witness ==
    /\ pc = "exited"
    /\ ended_by = [exc |-> "CancelledError", at |-> "scanning"]
    /\ scan_count = 2
    /\ Len(devices) = 2
    /\ probe[1] = Found(-85) /\ probe[2] = NoProbe
    /\ ~is_locked /\ controller.lock_count = 0
    /\ evaluated.which = "none"

\* C16: the scan tasks of a cycle are started only from the sleep (or the
\* start) with no task in flight, so after the previous cycle's evaluation
\* and actuator call; every task in flight belongs to the current cycle; no
\* task is in flight while a cycle is evaluated or the loop sleeps; and a
\* cycle is evaluated on the rssi_map built from its own scans.
C16_NoCycleOverlap ==
    [][ /\ (\E i \in Idx : tasks[i] = Idle /\ tasks'[i] # Idle) =>
             /\ pc \in {"start", "sleeping"}
             /\ \A j \in Idx : tasks[j] = Idle /\ task_cycle'[j] = scan_count'
        /\ \A i \in Idx : tasks[i] # Idle => task_cycle[i] = scan_count
        /\ pc \in {"start", "evaluate", "sleeping"} => \A i \in Idx : tasks[i] = Idle
        /\ pc = "evaluate" => map_cycle = scan_count
      ]_vars

\* C16 witness: in the second cycle, after the first cycle's lock call, one
\* scan is done and the other still in flight, both of cycle 2.
C16_Witness ==
    /\ pc = "scanning"
    /\ scan_count = 2
    /\ Len(devices) = 2
    /\ calls = << [op |-> "lock_system", ok |-> TRUE] >>
    /\ tasks[1] = Running /\ tasks[2] = Some(-65)
    /\ task_cycle[1] = 2 /\ task_cycle[2] = 2

\* C17: whenever the session is ended by an external interrupt (delivered
\* while the loop sleeps, while it scans, or while code of monitor_loop is
\* executing) or by a fatal error, run has called shutdown() by the time it
\* returns.
C17_ShutdownOnEveryExit ==
    (pc = "exited" /\ ended_by.exc \in {"KeyboardInterrupt", "Exception"}) =>
        shutdown_called

\* C18: every TargetDevice of a constructed controller carries the
\* configured thresholds with unlock_threshold > lock_threshold, at
\* construction and at every later moment of the loop; with
\* LOCK_THRESHOLD >= UNLOCK_THRESHOLD no controller is constructed.
C18_ThresholdsOrdered ==
    /\ \A i \in Idx :
         /\ devices[i].lock_threshold = thresholds[1]
         /\ devices[i].unlock_threshold = thresholds[2]
         /\ devices[i].unlock_threshold > devices[i].lock_threshold
    /\ thresholds[1] >= thresholds[2] => (pc = "config_error" /\ devices = << >>)
    /\ pc # "config_error" => devices # << >>

\* C18 witness: a controller with two devices built from the pair -75/-70
\* has run two cycles and locked.
C18_Witness ==
    /\ pc = "sleeping"
    /\ scan_count = 2
    /\ Len(devices) = 2
    /\ thresholds = << -75, -70 >>
    /\ is_locked

\* C19: the multi-device controller with the phone only and the
\* single-device controller, driven by the same readings and actuator
\* outcomes, agree at every moment on is_locked, on the failure counter, on
\* the actuator's state and counts and on the actuator calls of the cycle.
C19_SingleEqualsPhoneOnly ==
    /\ single.is_locked = is_locked
    /\ single.consecutive_failures = devices[1].consecutive_failures
    /\ single.controller = controller
    /\ single.calls = calls

\* C19 witness: both controllers locked on an absence in the first cycle,
\* and both unlocked in the second.
C19_Witness ==
    /\ pc = "sleeping"
    /\ scan_count = 2
    /\ single.calls = << [op |-> "wake_system", ok |-> TRUE] >>
    /\ single.controller = [ current_state |-> "UNLOCKED", lock_count |-> 1,
                              unlock_count |-> 1 ]
    /\ single.consecutive_failures = 1
    /\ ~is_locked

\* C20: a scan that fails with BleakError is handled like a device not
\* found: the reading is absent, the cycle is evaluated and the loop goes on
\* to the sleep, in a cycle that begins Unlocked the device's failure counter
\* is incremented, and after fail_threshold consecutive such cycles the
\* device gives a lock vote and lock_system is called.
C20_BleakErrorLikeNotFound ==
    [][ /\ \A i \in Idx :
             _scan_device(devices[i], AdapterError) = _scan_device(devices[i], NotFound)
        /\ pc = "evaluate" =>
             \A i \in Idx : probe[i] = AdapterError =>
                /\ ~Present(i)
                /\ pc' = "sleeping"
                /\ ~is_locked =>
                     devices'[i].consecutive_failures = devices[i].consecutive_failures + 1
        /\ (pc = "sleeping" /\ ~began_locked) =>
             \A i \in Idx : err_run[i] >= fail_threshold =>
                /\ i \in abs_votes
                /\ evaluated = [which |-> "lock", result |-> TRUE]
                /\ calls # << >> /\ calls[1].op = "lock_system"
      ]_vars

\* C20 witness: with a failure threshold of 2 the phone's scan raised
\* BleakError in two consecutive Unlocked cycles and the second one locked.
C20_Witness ==
    /\ pc = "sleeping"
    /\ fail_threshold = 2
    /\ scan_count = 2
    /\ err_run[1] = 2
    /\ probe[1] = AdapterError
    /\ 1 \in abs_votes
    /\ ~began_locked /\ is_locked

\* C21: while any scan task of the current cycle is still running no
\* consecutive_failures, is_locked, lock_count or unlock_count is modified;
\* the join hands over only when every device's scan has completed, and the
\* evaluation and the actuator call run with no scan task left.
C21_NoMutationWhileScanning ==
    [][ /\ (\E i \in Idx : tasks[i] = Running) =>
             /\ \A j \in Idx :
                  devices'[j].consecutive_failures = devices[j].consecutive_failures
             /\ is_locked' = is_locked
             /\ controller'.lock_count = controller.lock_count
             /\ controller'.unlock_count = controller.unlock_count
        /\ (pc = "scanning" /\ pc' = "evaluate") =>
             \A i \in Idx : tasks[i].kind \in {"None", "int"}
        /\ BodyStep => \A i \in Idx : tasks[i] = Idle
      ]_vars

\* C21 witness: in the second cycle the headphones' scan has completed with
\* an absent reading while the phone's scan is still running, and the
\* headphones' counter still has the value the first cycle left.
C21_Witness ==
    /\ pc = "scanning"
    /\ scan_count = 2
    /\ Len(devices) = 2
    /\ tasks[1] = Running /\ tasks[2] = None
    /\ devices[2].consecutive_failures = 1
    /\ ~is_locked

\* C22: when the join returns, _scan_all has exactly one entry per
\* registered device, the entry of each device is the result of that
\* device's own scan task whatever the order the tasks completed in, and
\* every entry is absent or an integer reading, never an exception object.
C22_OneOwnEntryPerDevice ==
    [][ (pc = "scanning" /\ pc' = "evaluate") =>
          /\ DOMAIN rssi_map' = NameSet
          /\ Cardinality(NameSet) = Len(devices)
          /\ { done_order[k] : k \in DOMAIN done_order } = Idx
          /\ \A i \in Idx :
               /\ rssi_map'[devices[i].name] = tasks[i]
               /\ rssi_map'[devices[i].name].kind \in {"None", "int"}
      ]_vars

\* C22 witness: the headphones' scan completed before the phone's, one of
\* them with a reading and the other after a BleakError, and each device has
\* its own entry.
C22_Witness ==
    /\ pc = "evaluate"
    /\ done_order = << 2, 1 >>
    /\ probe[1] = AdapterError /\ Reading(1) = None
    /\ probe[2] = Found(-65) /\ Reading(2) = Some(-65)

\* C23: when the loop runs on and the actuator does not fail for ever, it
\* does not happen that from some cycle on the state is Unlocked with a lock
\* vote in every cycle: the state becomes Locked (or a cycle without a lock
\* vote comes); and every cycle that is evaluated Unlocked with a lock vote
\* makes exactly one lock_system attempt, committed exactly when it returned
\* true.
C23_RetryUntilLocked ==
    /\ [][ (EvalStep /\ ~is_locked /\ \E i \in Idx : SpecLockVote(i)) =>
             \E ok \in BOOLEAN :
                /\ calls' = << [op |-> "lock_system", ok |-> ok] >>
                /\ is_locked' = ok
                /\ controller'.lock_count = controller.lock_count + (IF ok THEN 1 ELSE 0)
         ]_vars
    /\ []<>( \/ is_locked
             \/ pc = "evaluate" /\ ~is_locked /\ \A i \in Idx : ~SpecLockVote(i) )

\* C23 witness: lock_system failed in two cycles and succeeded in the third,
\* and the state is Locked with one lock counted.
C23_Witness ==
    /\ pc = "sleeping"
    /\ scan_count = 3
    /\ prev_calls = << [op |-> "lock_system", ok |-> FALSE] >>
    /\ calls = << [op |-> "lock_system", ok |-> TRUE] >>
    /\ is_locked
    /\ controller = [ current_state |-> "LOCKED", lock_count |-> 1, unlock_count |-> 0 ]

\* C24: in a cycle that begins Unlocked, a present reading strictly below
\* lock_threshold makes the lock attempt in that same cycle, whatever the
\* failure counter was, leaves the counter at 0 and is no absence-driven
\* vote; with a succeeding actuator the state is then Locked. In both
\* controllers. With thresholds -80/-70 and the readings -85, -85 the state
\* is Locked after the second cycle and lock_system was called exactly once
\* (in the first cycle).
C24_FarReadingLocksAtOnce ==
    /\ [][ ( /\ EvalStep
             /\ ~is_locked
             /\ Present(1)
             /\ Reading(1).val < thresholds[1] ) =>
               \E ok \in BOOLEAN :
                  /\ calls' = << [op |-> "lock_system", ok |-> ok] >>
                  /\ is_locked' = ok
                  /\ devices'[1].consecutive_failures = 0
                  /\ 1 \notin abs_votes'
                  /\ single'.calls = << [op |-> "lock_system", ok |-> ok] >>
                  /\ single'.is_locked = ok
                  /\ single'.consecutive_failures = 0
         ]_vars
    /\ []( ( /\ pc = "sleeping"
             /\ thresholds = << -80, -70 >>
             /\ Len(cycle_log) = 2
             /\ \A k \in DOMAIN cycle_log :
                  cycle_log[k].rssi = Some(-85) /\ cycle_log[k].ok ) =>
               /\ is_locked /\ single.is_locked
               /\ prev_calls = << [op |-> "lock_system", ok |-> TRUE] >>
               /\ calls = << >> /\ single.calls = << >>
               /\ controller.lock_count = 1 /\ single.controller.lock_count = 1 )

\* C24 witness: thresholds -80/-70, the readings -85 and -85, every call
\* succeeded: Locked after the second cycle with one lock counted.
C24_Witness ==
    /\ pc = "sleeping"
    /\ scan_count = 2
    /\ thresholds = << -80, -70 >>
    /\ Len(cycle_log) = 2
    /\ \A k \in DOMAIN cycle_log : cycle_log[k].rssi = Some(-85) /\ cycle_log[k].ok
    /\ is_locked
    /\ controller.lock_count = 1

\* C25: the events a cycle sent to the logger are exactly its transitions:
\* one SYSTEM_LOCKED event iff is_locked changed to true in the cycle, one
\* SYSTEM_UNLOCKED event iff it changed to false, no event otherwise; the
\* event carries the phone's reading of that cycle (absent when the phone
\* was not observed); outside the body of a cycle nothing is logged.
C25_EventIffTransition ==
    [][ /\ BodyStep =>
             events' = IF is_locked' = is_locked THEN << >>
                       ELSE << [ type |-> IF is_locked' THEN "SYSTEM_LOCKED"
                                          ELSE "SYSTEM_UNLOCKED",
                                 rssi |-> rssi_map["phone"] ] >>
        /\ BodyStep => rssi_map' = rssi_map /\ map_cycle = scan_count
        /\ ~BodyStep => (events' = events \/ events' = << >>)
      ]_vars

\* C25 witness: the system was unlocked by the headphones while the phone
\* was not observed: the SYSTEM_UNLOCKED event carries an absent reading.
C25_Witness ==
    /\ pc = "sleeping"
    /\ began_locked /\ ~is_locked
    /\ ~Present(1)
    /\ events = << [ type |-> "SYSTEM_UNLOCKED", rssi |-> None ] >>

\* C26: at every point of a run lock_count is the number of lock_system
\* calls that returned true, unlock_count the number of wake_system calls
\* that returned true, and scan_count the number of cycles started.
C26_CountersCountEvents ==
    /\ controller.lock_count = tally.locks
    /\ controller.unlock_count = tally.wakes
    /\ scan_count = tally.cycles

\* C26 witness: three cycles started; one lock and one wake succeeded, the
\* lock_system call of the third cycle failed and was not counted.
C26_Witness ==
    /\ pc = "sleeping"
    /\ tally = [ locks |-> 1, wakes |-> 1, cycles |-> 3 ]
    /\ calls = << [op |-> "lock_system", ok |-> FALSE] >>
    /\ controller.lock_count = 1 /\ controller.unlock_count = 1

\* C27: with an actuator that always succeeds, when every cycle has a lock
\* vote of one device and an unlock vote of another, is_locked flips in
\* every cycle with exactly one actuator call per cycle: after n cycles it
\* is true iff n is odd, and n calls have succeeded, locks and wakes in
\* turn. The hysteresis of the thresholds does not stop the alternation.
C27_OpposedVotesAlternate ==
    pc = "sleeping" =>
        /\ is_locked <=> (scan_count % 2 = 1)
        /\ is_locked # began_locked
        /\ calls = << [ op |-> IF is_locked THEN "lock_system" ELSE "wake_system",
                        ok |-> TRUE ] >>
        /\ controller.lock_count = (scan_count + 1) \div 2
        /\ controller.unlock_count = scan_count \div 2

\* C27 witness: three cycles with opposed votes: locked, unlocked, locked.
C27_Witness ==
    /\ pc = "sleeping"
    /\ scan_count = 3
    /\ is_locked
    /\ \E i, j \in Idx : i # j /\ Present(i) /\ Present(j)
                          /\ Reading(i).val < devices[i].lock_threshold
                          /\ Reading(j).val > devices[j].unlock_threshold
    /\ controller = [ current_state |-> "LOCKED", lock_count |-> 2, unlock_count |-> 1 ]

\* The single-device controller's is_locked after k evaluated cycles.
LockedAfter(k) == IF k = 0 THEN InitialLocked ELSE cycle_log[k].locked

\* C28: with unlock_threshold > lock_threshold no reading, present or
\* absent, whatever the failure counter, gives the single device both a lock
\* vote and an unlock vote; and over consecutive cycles with the same
\* reading the single-device controller's is_locked changes at most once.
C28_NoDoubleVote ==
    /\ thresholds[2] > thresholds[1]
    /\ \A r \in {None} \cup { Some(v) : v \in RssiValues },
          cf \in 0..(MaxCycles + 1) :
          ~( /\ _should_lock(cf, r, thresholds, fail_threshold).result
             /\ _should_unlock(r, thresholds) )
    /\ \A a, b \in DOMAIN cycle_log :
          (a <= b /\ \A k \in a..b : cycle_log[k].rssi = cycle_log[a].rssi) =>
             Cardinality({ k \in a..b : LockedAfter(k) # LockedAfter(k - 1) }) <= 1

\* C28 witness: three cycles with the same far reading: the controller
\* locked in the first and stayed Locked.
C28_Witness ==
    /\ pc = "sleeping"
    /\ Len(cycle_log) = 3
    /\ \A k \in DOMAIN cycle_log :
         cycle_log[k].rssi = Some(-85) /\ cycle_log[k].locked
    /\ single.controller.lock_count = 1

\* The devices with every failure counter set to c.
WithCounters(c) ==
    [ i \in Idx |-> [devices[i] EXCEPT !.consecutive_failures = c] ]

\* C29: a cycle that begins Locked leaves every device's
\* consecutive_failures unchanged whatever the readings, and does not read
\* them (its outcome is the same for every value of the counters); the
\* counters are written only by the body of a cycle that began Unlocked.
\* The single-device controller does the same.
C29_CountersFrozenWhileLocked ==
    /\ [][ /\ is_locked =>
                \A i \in Idx :
                   devices'[i].consecutive_failures = devices[i].consecutive_failures
           /\ devices' # devices => (BodyStep /\ ~is_locked /\ ~began_locked)
         ]_vars
    /\ []( (pc = "evaluate" /\ is_locked) =>
             /\ began_locked
             /\ \A c \in 0..MaxFailThreshold,
                   lockOs \in LockOsOutcomes, wakeOs \in WakeOsOutcomes :
                   LET r1 == CycleBody(is_locked, devices, rssi_map, fail_threshold,
                                       controller, lockOs, wakeOs)
                       r2 == CycleBody(is_locked, WithCounters(c), rssi_map,
                                       fail_threshold, controller, lockOs, wakeOs)
                       sg == [ SingleInit EXCEPT !.is_locked = TRUE,
                                                 !.consecutive_failures = c ]
                       s2 == SingleCycle(sg, rssi_map["phone"], thresholds,
                                         fail_threshold, lockOs, wakeOs)
                       s0 == SingleCycle([sg EXCEPT !.consecutive_failures = 0],
                                         rssi_map["phone"], thresholds,
                                         fail_threshold, lockOs, wakeOs)
                   IN  /\ r1.devices = devices
                       /\ r2.devices = WithCounters(c)
                       /\ r2.is_locked = r1.is_locked
                       /\ r2.calls = r1.calls
                       /\ r2.controller = r1.controller
                       /\ s2.consecutive_failures = c
                       /\ s2.is_locked = s0.is_locked
                       /\ s2.calls = s0.calls )

\* C29 witness: a cycle that began Locked is over; the phone was observed in
\* it and still has the failure counted before the lock, the headphones were
\* absent in it and their counter is still 0.
C29_Witness ==
    /\ pc = "sleeping"
    /\ began_locked
    /\ Len(devices) = 2
    /\ Present(1) /\ devices[1].consecutive_failures = 1
    /\ ~Present(2) /\ devices[2].consecutive_failures = 0

\* C30: at every cycle boundary (before the first cycle and at each sleep),
\* and while a cycle scans and waits to be evaluated, is_locked is true
\* exactly when the actuator's current_state is LOCKED and false exactly
\* when it is UNKNOWN or UNLOCKED.
C30_FlagMirrorsActuator ==
    pc \in {"start", "scanning", "evaluate", "sleeping"} =>
        /\ controller.current_state \in {"UNKNOWN", "UNLOCKED", "LOCKED"}
        /\ is_locked <=> controller.current_state = "LOCKED"
        /\ ~is_locked <=> controller.current_state \in {"UNKNOWN", "UNLOCKED"}

\* C30 witness: after a lock and a wake, a lock_system call failed: the
\* controller is Unlocked and the actuator still shows UNLOCKED.
C30_Witness ==
    /\ pc = "sleeping"
    /\ ~is_locked
    /\ controller.current_state = "UNLOCKED"
    /\ calls = << [op |-> "lock_system", ok |-> FALSE] >>

\* C31: successful actuator calls strictly alternate, starting with a lock:
\* a lock is counted only when as many wakes as locks have been counted, a
\* wake only when one more lock than wakes has been counted, at most one of
\* them in a step; and at every cycle boundary (and while a cycle runs)
\* lock_count - unlock_count is 0 or 1, and it is 1 exactly when is_locked
\* is true.
C31_CallsAlternate ==
    /\ [][ /\ controller'.lock_count # controller.lock_count =>
                /\ controller'.lock_count = controller.lock_count + 1
                /\ controller'.unlock_count = controller.unlock_count
                /\ controller.lock_count = controller.unlock_count
           /\ controller'.unlock_count # controller.unlock_count =>
                /\ controller'.unlock_count = controller.unlock_count + 1
                /\ controller'.lock_count = controller.lock_count
                /\ controller.lock_count = controller.unlock_count + 1
         ]_vars
    /\ []( pc \in {"start", "scanning", "evaluate", "sleeping"} =>
             /\ controller.lock_count - controller.unlock_count \in {0, 1}
             /\ is_locked <=> (controller.lock_count - controller.unlock_count = 1) )

\* C31 witness: a lock, a wake and a second lock succeeded in three cycles.
C31_Witness ==
    /\ pc = "sleeping"
    /\ prev_calls = << [op |-> "wake_system", ok |-> TRUE] >>
    /\ calls = << [op |-> "lock_system", ok |-> TRUE] >>
    /\ controller.lock_count = 2 /\ controller.unlock_count = 1
    /\ is_locked

\* The devices whose scanner could not be constructed.
NoScanner == { i \in Idx : devices[i].scanner = "None" }

\* C32: a device without a scanner is not fatal and reads absent in every
\* cycle: the controller starts, the device's scan completes without a
\* discovery, its entry is absent; every cycle evaluated Unlocked counts one
\* more failure for it and nothing else changes its counter while the loop
\* runs, so once the counter reaches the failure threshold every cycle
\* evaluated Unlocked makes a lock attempt (in a run never locked: every
\* cycle from the fail_threshold-th on); and the device gives no unlock
\* vote: a Locked cycle in which no device with a scanner votes unlock makes
\* no call.
C32_NoScannerReadsAbsent ==
    /\ [][ \A i \in NoScanner :
             /\ (EvalStep /\ ~is_locked) =>
                  /\ devices'[i].consecutive_failures = devices[i].consecutive_failures + 1
                  /\ devices[i].consecutive_failures + 1 >= fail_threshold =>
                       \E ok \in BOOLEAN :
                          calls' = << [op |-> "lock_system", ok |-> ok] >>
             /\ (EvalStep /\ is_locked) =>
                  /\ ~NearVote(devices[i], rssi_map[devices[i].name])
                  /\ (\A j \in Idx \ NoScanner : ~SpecUnlockVote(j)) =>
                       (calls' = << >> /\ is_locked')
             /\ ~(BodyStep /\ ~is_locked) =>
                  devices'[i].consecutive_failures = devices[i].consecutive_failures
         ]_vars
    /\ []( \A i \in NoScanner :
             /\ (pc = "scanning" /\ tasks[i] = Running) =>
                  ENABLED ScanDeviceWith(i, NotFound)
             /\ (pc = "scanning" /\ tasks[i] # Running) =>
                  (tasks[i] = None /\ probe[i] = NoProbe)
             /\ pc \in {"evaluate", "sleeping"} => (~Present(i) /\ probe[i] = NoProbe)
             /\ ( /\ pc = "sleeping"
                  /\ controller.current_state = "UNKNOWN" ) =>
                    /\ devices[i].consecutive_failures = scan_count
                    /\ scan_count >= fail_threshold =>
                         calls = << [op |-> "lock_system", ok |-> FALSE] >> )

\* C32 witness: the headphones have no scanner and the failure threshold is
\* 2; the phone stayed in its dead zone. The first cycle made no call, the
\* second a lock attempt that failed, the third one that succeeded.
C32_Witness ==
    /\ pc = "sleeping"
    /\ scan_count = 3
    /\ fail_threshold = 2
    /\ Len(devices) = 2
    /\ devices[2].scanner = "None" /\ devices[2].consecutive_failures = 3
    /\ InDeadZone(1)
    /\ prev_calls = << [op |-> "lock_system", ok |-> FALSE] >>
    /\ calls = << [op |-> "lock_system", ok |-> TRUE] >>
    /\ is_locked

====
